---- MODULE Spec2Model ----
(***************************************************************************)
(* Model of the Midea air-conditioner attribute synchronizer               *)
(* (MideaACDevice: build_query, process_message, set_attribute,            *)
(* set_target_temperature, set_swing) and of the onboarding of appliances  *)
(* by the platform (MideaPlatform: configureAccessory, addDevice).         *)
(*                                                                         *)
(* An async function is a sequence of steps from one await to the next;   *)
(* between the steps of one call the other calls run.                      *)
(*                                                                         *)
(* Encoding of TypeScript values:                                          *)
(*   - an object is a function whose DOMAIN is the set of its own keys     *)
(*     (Object.keys), so an optional key that was never assigned is absent *)
(*     from the DOMAIN;                                                    *)
(*   - booleans and numbers are themselves; temperatures are whole degrees;*)
(*   - `undefined` read from a string-typed key is the string Undefined;   *)
(*   - the optional number fresh_air_version is 0 while undefined (the     *)
(*     code only ever assigns 1 or 2 and only tests its truthiness);       *)
(*   - truthiness is decided per attribute by its declared type.           *)
(***************************************************************************)
EXTENDS Integers, Sequences, FiniteSets, TLC

VARIABLES attributes, fresh_air_version, used_subprotocol, bb_sn8_flag,
          bb_timer, sent, new_status, call, suspended,
          accessories, loggedIn, loginSemaphore, flows, exited

\* The fields of one MideaACDevice, and what its last call did.
device_vars == <<attributes, fresh_air_version, used_subprotocol, bb_sn8_flag,
                 bb_timer, sent, new_status, call, suspended>>

\* The fields of the MideaPlatform, and its addDevice calls in progress.
platform_vars == <<accessories, loggedIn, loginSemaphore, flows, exited>>

vars == <<attributes, fresh_air_version, used_subprotocol, bb_sn8_flag,
          bb_timer, sent, new_status, call, suspended,
          accessories, loggedIn, loginSemaphore, flows, exited>>

\* ------------------------------------------------------------------------
\* Bounds of the model
\* ------------------------------------------------------------------------

\* MODE ranges over 0..MaxMode (the device knows 0..5: OFF, AUTO, COOL, ...).
MaxMode == 2

\* The number of addDevice calls the discovery makes.
MaxFlows == 2

\* The number of set_attribute calls that may be suspended at the await of
\* build_send, with entries left, at the same time.
MaxSuspended == 1

\* Fresh-air fan speeds used in status updates and set requests.
FreshAirSpeeds == {0, 20, 40, 45, 60, 80, 100}

\* Target temperatures used in set requests.
TargetTemperatures == {17, 24}

\* ------------------------------------------------------------------------
\* DeviceAttributes
\* ------------------------------------------------------------------------

Undefined == "undefined"

BoolNames ==
  {"PROMPT_TONE", "POWER", "SWING_VERTICAL", "SWING_HORIZONTAL", "SMART_EYE",
   "DRY", "AUX_HEATING", "BOOST_MODE", "SLEEP_MODE", "FROST_PROTECT",
   "COMFORT_MODE", "ECO_MODE", "NATURAL_WIND", "TEMP_FAHRENHEIT",
   "SCREEN_DISPLAY", "SCREEN_DISPLAY_NEW", "FULL_DUST", "INDIRECT_WIND",
   "BREEZELESS", "FRESH_AIR_POWER", "FRESH_AIR_1", "FRESH_AIR_2"}

NumNames ==
  {"MODE", "TARGET_TEMPERATURE", "FAN_SPEED", "INDOOR_TEMPERATURE",
   "OUTDOOR_TEMPERATURE", "INDOOR_HUMIDITY", "TOTAL_ENERGY_CONSUMPTION",
   "CURRENT_ENERGY_CONSUMPTION", "REALTIME_POWER", "FRESH_AIR_FAN_SPEED"}

StrNames == {"FRESH_AIR_MODE"}

\* JavaScript truthiness of a value of the attribute `name`.
Truthy(name, v) ==
  IF name \in NumNames THEN v # 0
  ELSE IF name \in StrNames THEN v \notin {"", Undefined}
  ELSE v = TRUE

\* The attribute object the constructor builds.
DefaultAttributes ==
  [PROMPT_TONE |-> FALSE, POWER |-> FALSE, MODE |-> 0,
   TARGET_TEMPERATURE |-> 24, FAN_SPEED |-> 102, SWING_VERTICAL |-> FALSE,
   SWING_HORIZONTAL |-> FALSE, SMART_EYE |-> FALSE, DRY |-> FALSE,
   AUX_HEATING |-> FALSE, BOOST_MODE |-> FALSE, SLEEP_MODE |-> FALSE,
   FROST_PROTECT |-> FALSE, COMFORT_MODE |-> FALSE, ECO_MODE |-> FALSE,
   NATURAL_WIND |-> FALSE, TEMP_FAHRENHEIT |-> FALSE,
   SCREEN_DISPLAY |-> FALSE, SCREEN_DISPLAY_NEW |-> FALSE,
   FULL_DUST |-> FALSE, INDIRECT_WIND |-> FALSE, BREEZELESS |-> FALSE,
   REALTIME_POWER |-> 0, FRESH_AIR_POWER |-> FALSE,
   FRESH_AIR_FAN_SPEED |-> 0, FRESH_AIR_1 |-> FALSE, FRESH_AIR_2 |-> FALSE]

\* Object.entries(FRESH_AIR_FAN_SPEEDS): the keys are integer indices, which
\* ECMAScript enumerates in ascending numeric order, as strings.
FRESH_AIR_FAN_SPEEDS ==
  << <<"0", "Off">>, <<"20", "Silent">>, <<"40", "Low">>,
     <<"60", "Medium">>, <<"80", "High">>, <<"100", "Full">> >>

\* Object.entries(FRESH_AIR_FAN_SPEEDS_REVERSE): written from 100 down to 0
\* in the source, but integer keys are enumerated in ascending numeric order
\* whatever the order of the literal.
FRESH_AIR_FAN_SPEEDS_REVERSE ==
  << <<"0", "Off">>, <<"20", "Silent">>, <<"40", "Low">>,
     <<"60", "Medium">>, <<"80", "High">>, <<"100", "Full">> >>

\* Number.parseInt on the keys of the two tables.
ParseInt(k) ==
  CASE k = "0" -> 0 [] k = "20" -> 20 [] k = "40" -> 40
    [] k = "60" -> 60 [] k = "80" -> 80 [] k = "100" -> 100

\* String.prototype.toLowerCase on the attribute names set_attribute uses as
\* message field names.
ToLowerCase(k) ==
  CASE k = "POWER" -> "power"
    [] k = "MODE" -> "mode"
    [] k = "TARGET_TEMPERATURE" -> "target_temperature"
    [] k = "FAN_SPEED" -> "fan_speed"
    [] k = "AUX_HEATING" -> "aux_heating"
    [] k = "BOOST_MODE" -> "boost_mode"
    [] k = "SLEEP_MODE" -> "sleep_mode"
    [] k = "FROST_PROTECT" -> "frost_protect"
    [] k = "COMFORT_MODE" -> "comfort_mode"
    [] k = "ECO_MODE" -> "eco_mode"
    [] k = "INDIRECT_WIND" -> "indirect_wind"
    [] k = "BREEZELESS" -> "breezeless"


\* ------------------------------------------------------------------------
\* Incoming messages (MessageACResponse)
\* ------------------------------------------------------------------------

\* `if (message.get_body_attribute(name))`: the body carries the field and
\* its value is truthy.  An absent field reads as undefined, which is falsy.
body_truthy(message, name) ==
  name \in DOMAIN message.body /\ Truthy(name, message.body[name])

\* message.get_body_attribute(name), used where the field is known present.
get_body_attribute(message, name) == message.body[name]

\* ------------------------------------------------------------------------
\* build_query
\* ------------------------------------------------------------------------

build_query(sub) ==
  IF sub
    THEN << [type |-> "MessageSubProtocolQuery", code |-> 16],
            [type |-> "MessageSubProtocolQuery", code |-> 17],
            [type |-> "MessageSubProtocolQuery", code |-> 48] >>
    ELSE << [type |-> "MessageQuery"],
            [type |-> "MessageNewProtocolQuery"],
            [type |-> "MessagePowerQuery"] >>

\* ------------------------------------------------------------------------
\* Outgoing status-set messages
\* ------------------------------------------------------------------------

make_message_set(attrs) ==
  [type |-> "MessageGeneralSet",
   power |-> attrs.POWER,
   prompt_tone |-> attrs.PROMPT_TONE,
   mode |-> attrs.MODE,
   target_temperature |-> attrs.TARGET_TEMPERATURE,
   fan_speed |-> attrs.FAN_SPEED,
   swing_vertical |-> attrs.SWING_VERTICAL,
   swing_horizontal |-> attrs.SWING_HORIZONTAL,
   boost_mode |-> attrs.BOOST_MODE,
   smart_eye |-> attrs.SMART_EYE,
   dry |-> attrs.DRY,
   eco_mode |-> attrs.ECO_MODE,
   aux_heating |-> attrs.AUX_HEATING,
   sleep_mode |-> attrs.SLEEP_MODE,
   frost_protect |-> attrs.FROST_PROTECT,
   comfort_mode |-> attrs.COMFORT_MODE,
   natural_wind |-> attrs.NATURAL_WIND,
   temp_fahrenheit |-> attrs.TEMP_FAHRENHEIT]

make_subprotocol_message_set(attrs, sn8, timer) ==
  [type |-> "MessageSubProtocolSet",
   power |-> attrs.POWER,
   prompt_tone |-> attrs.PROMPT_TONE,
   aux_heating |-> attrs.AUX_HEATING,
   mode |-> attrs.MODE,
   target_temperature |-> attrs.TARGET_TEMPERATURE,
   fan_speed |-> attrs.FAN_SPEED,
   boost_mode |-> attrs.BOOST_MODE,
   dry |-> attrs.DRY,
   eco_mode |-> attrs.ECO_MODE,
   sleep_mode |-> attrs.SLEEP_MODE,
   sn8_flag |-> sn8,
   timer |-> timer]

\* Mutant of make_message_unique_set: the sub-protocol lock is ignored.
make_message_unique_set_general(attrs, sub, sn8, timer) ==
  make_message_set(attrs)

make_message_unique_set(attrs, sub, sn8, timer) ==
  IF sub THEN make_subprotocol_message_set(attrs, sn8, timer)
         ELSE make_message_set(attrs)

\* `message[name] = value` on a message object: overwrite or create the field.
SetField(message, name, value) == (name :> value) @@ message

\* `new MessageNewProtocolSet(version)`: only the fields the device code
\* assigns are modelled.
MessageNewProtocolSet == [type |-> "MessageNewProtocolSet"]

MessageSwitchDisplay == [type |-> "MessageSwitchDisplay"]

\* The key under which `message[this.fresh_air_version] = ...` stores the
\* fresh-air tuple: the number converted to a property name.
VersionKey(version) == IF version = 1 THEN "1" ELSE "2"


\* ------------------------------------------------------------------------
\* process_message
\* ------------------------------------------------------------------------

\* The loop over Object.entries(FRESH_AIR_FAN_SPEEDS_REVERSE) from entry i on:
\* stop at the first key the speed exceeds, otherwise take the entry's name.
\* `mode` is the value of attributes.FRESH_AIR_MODE so far.
RECURSIVE fresh_air_mode_loop(_, _, _)
fresh_air_mode_loop(i, speed, mode) ==
  IF i > Len(FRESH_AIR_FAN_SPEEDS_REVERSE) THEN mode
  ELSE IF speed > ParseInt(FRESH_AIR_FAN_SPEEDS_REVERSE[i][1]) THEN mode
  ELSE fresh_air_mode_loop(i + 1, speed, FRESH_AIR_FAN_SPEEDS_REVERSE[i][2])

\* Reading attributes.FRESH_AIR_MODE, an optional key.
ReadFreshAirMode(attrs) ==
  IF "FRESH_AIR_MODE" \in DOMAIN attrs THEN attrs["FRESH_AIR_MODE"] ELSE Undefined

\* Mutant of process_message: SCREEN_DISPLAY is not forced false while POWER
\* is false.
process_message_keeps_display(self, message) ==
  LET sub == self.used_subprotocol \/ message.used_subprotocol
      sn8 == IF message.used_subprotocol /\ body_truthy(message, "sn8_flag")
               THEN get_body_attribute(message, "sn8_flag") ELSE self.bb_sn8_flag
      timer == IF message.used_subprotocol /\ body_truthy(message, "timer")
                 THEN get_body_attribute(message, "timer") ELSE self.bb_timer
      taken == {status \in DOMAIN self.attributes : body_truthy(message, status)}
      attrs1 == [status \in DOMAIN self.attributes |->
                   IF status \in taken THEN get_body_attribute(message, status)
                                       ELSE self.attributes[status]]
      status1 == [status \in taken |-> get_body_attribute(message, status)]
      has_fresh_air == "FRESH_AIR_POWER" \in taken
      derived == IF attrs1.FRESH_AIR_POWER
                   THEN fresh_air_mode_loop(1, attrs1.FRESH_AIR_FAN_SPEED,
                                            ReadFreshAirMode(attrs1))
                   ELSE "Off"
      attrs2 == IF has_fresh_air /\ derived # Undefined
                  THEN ("FRESH_AIR_MODE" :> derived) @@ attrs1
                  ELSE attrs1
      status2 == IF has_fresh_air
                   THEN ("FRESH_AIR_MODE" :> ReadFreshAirMode(attrs2)) @@ status1
                   ELSE status1
      wind_off == ~attrs2.POWER
                  \/ ("SWING_VERTICAL" \in DOMAIN status2 /\ attrs2.SWING_VERTICAL)
      attrs3 == IF wind_off THEN [attrs2 EXCEPT !["INDIRECT_WIND"] = FALSE]
                            ELSE attrs2
      status3 == IF wind_off THEN ("INDIRECT_WIND" :> FALSE) @@ status2
                             ELSE status2
      attrs4 == attrs3
      status4 == status3
      version == IF attrs4.FRESH_AIR_1 THEN 1
                 ELSE IF attrs4.FRESH_AIR_2 THEN 2
                 ELSE self.fresh_air_version
  IN  [attributes |-> attrs4,
       fresh_air_version |-> version,
       used_subprotocol |-> sub,
       bb_sn8_flag |-> sn8,
       bb_timer |-> timer,
       new_status |-> status4]

\* process_message on the device `self` (a record of the object's fields).
\* The result has the fields of the device after the call and the returned
\* change-set new_status.
process_message(self, message) ==
  LET \* if (message.used_subprotocol) { ... }
      sub == self.used_subprotocol \/ message.used_subprotocol
      sn8 == IF message.used_subprotocol /\ body_truthy(message, "sn8_flag")
               THEN get_body_attribute(message, "sn8_flag") ELSE self.bb_sn8_flag
      timer == IF message.used_subprotocol /\ body_truthy(message, "timer")
                 THEN get_body_attribute(message, "timer") ELSE self.bb_timer
      \* for (const status of Object.keys(this.attributes)) { ... }
      taken == {status \in DOMAIN self.attributes : body_truthy(message, status)}
      attrs1 == [status \in DOMAIN self.attributes |->
                   IF status \in taken THEN get_body_attribute(message, status)
                                       ELSE self.attributes[status]]
      status1 == [status \in taken |-> get_body_attribute(message, status)]
      has_fresh_air == "FRESH_AIR_POWER" \in taken
      \* if (has_fresh_air) { ... }
      derived == IF attrs1.FRESH_AIR_POWER
                   THEN fresh_air_mode_loop(1, attrs1.FRESH_AIR_FAN_SPEED,
                                            ReadFreshAirMode(attrs1))
                   ELSE "Off"
      \* the key FRESH_AIR_MODE exists once a name has been assigned to it
      attrs2 == IF has_fresh_air /\ derived # Undefined
                  THEN ("FRESH_AIR_MODE" :> derived) @@ attrs1
                  ELSE attrs1
      status2 == IF has_fresh_air
                   THEN ("FRESH_AIR_MODE" :> ReadFreshAirMode(attrs2)) @@ status1
                   ELSE status1
      \* the corrections that follow the merge
      wind_off == ~attrs2.POWER
                  \/ ("SWING_VERTICAL" \in DOMAIN status2 /\ attrs2.SWING_VERTICAL)
      attrs3 == IF wind_off THEN [attrs2 EXCEPT !["INDIRECT_WIND"] = FALSE]
                            ELSE attrs2
      status3 == IF wind_off THEN ("INDIRECT_WIND" :> FALSE) @@ status2
                             ELSE status2
      attrs4 == IF ~attrs3.POWER THEN [attrs3 EXCEPT !["SCREEN_DISPLAY"] = FALSE]
                                 ELSE attrs3
      status4 == IF ~attrs3.POWER THEN ("SCREEN_DISPLAY" :> FALSE) @@ status3
                                  ELSE status3
      version == IF attrs4.FRESH_AIR_1 THEN 1
                 ELSE IF attrs4.FRESH_AIR_2 THEN 2
                 ELSE self.fresh_air_version
  IN  [attributes |-> attrs4,
       fresh_air_version |-> version,
       used_subprotocol |-> sub,
       bb_sn8_flag |-> sn8,
       bb_timer |-> timer,
       new_status |-> status4]


\* ------------------------------------------------------------------------
\* set_attribute
\* ------------------------------------------------------------------------

\* Mutant of SensorNames: REALTIME_POWER is not taken for sensor data.
SensorNames_without_realtime_power ==
  {"INDOOR_TEMPERATURE", "OUTDOOR_TEMPERATURE", "INDOOR_HUMIDITY", "FULL_DUST",
   "TOTAL_ENERGY_CONSUMPTION", "CURRENT_ENERGY_CONSUMPTION"}

SensorNames ==
  {"INDOOR_TEMPERATURE", "OUTDOOR_TEMPERATURE", "INDOOR_HUMIDITY", "FULL_DUST",
   "TOTAL_ENERGY_CONSUMPTION", "CURRENT_ENERGY_CONSUMPTION", "REALTIME_POWER"}

ModeGroup ==
  {"BOOST_MODE", "SLEEP_MODE", "FROST_PROTECT", "COMFORT_MODE", "ECO_MODE"}

\* Object.values(this.FRESH_AIR_FAN_SPEEDS)
FreshAirModeNames ==
  {FRESH_AIR_FAN_SPEEDS[i][2] : i \in 1..Len(FRESH_AIR_FAN_SPEEDS)}

\* Number.parseInt(Object.keys(FRESH_AIR_FAN_SPEEDS).find(key => table[key] === v))
FreshAirSpeedOf(v) ==
  LET i == CHOOSE j \in 1..Len(FRESH_AIR_FAN_SPEEDS) :
             /\ FRESH_AIR_FAN_SPEEDS[j][2] = v
             /\ \A h \in 1..(j - 1) : FRESH_AIR_FAN_SPEEDS[h][2] # v
  IN  ParseInt(FRESH_AIR_FAN_SPEEDS[i][1])

\* Mutant of fresh_air_pair: power-off zeroes the speed field instead of
\* keeping the last known speed.
fresh_air_pair_zeroed(speed, current) ==
  IF speed > 0 THEN <<TRUE, speed>> ELSE <<FALSE, 0>>

\* `speed > 0 ? [true, speed] : [false, this.attributes.FRESH_AIR_FAN_SPEED]`
fresh_air_pair(speed, current) ==
  IF speed > 0 THEN <<TRUE, speed>> ELSE <<FALSE, current>>

\* Mutant of generic_set: the members of the mode group are not cleared
\* before the requested one is assigned.
generic_set_keeps_group(self, k, v) ==
  LET message == make_message_unique_set(self.attributes, self.used_subprotocol,
                                         self.bb_sn8_flag, self.bb_timer)
  IN  IF k \in {"BOOST_MODE", "SLEEP_MODE", "FROST_PROTECT", "COMFORT_MODE",
                "ECO_MODE"}
        THEN SetField(message, ToLowerCase(k), v)
        ELSE message

\* The generic status-set branch of set_attribute for the attribute k.
generic_set(self, k, v) ==
  LET message == make_message_unique_set(self.attributes, self.used_subprotocol,
                                         self.bb_sn8_flag, self.bb_timer)
      cleared == [message EXCEPT !["sleep_mode"] = FALSE,
                                 !["boost_mode"] = FALSE,
                                 !["eco_mode"] = FALSE]
      general == IF message.type = "MessageGeneralSet"
                   THEN [cleared EXCEPT !["frost_protect"] = FALSE,
                                        !["comfort_mode"] = FALSE]
                   ELSE cleared
      assigned == SetField(general, ToLowerCase(k), v)
  IN  IF k \in ModeGroup
        THEN IF k = "MODE" THEN [assigned EXCEPT !["power"] = TRUE] ELSE assigned
        ELSE message

\* One iteration of the loop of set_attribute, for the entry (k, v): the
\* attributes afterwards and the message built, as a sequence of zero or one.
set_attribute_entry(self, k, v) ==
  LET attrs == self.attributes
      version == self.fresh_air_version
      fresh(pair) == SetField(MessageNewProtocolSet, VersionKey(version), pair)
      none == [attributes |-> attrs, messages |-> << >>]
      one(message) == [attributes |-> attrs, messages |-> << message >>]
  IN  IF k \in SensorNames THEN none
      ELSE IF k = "PROMPT_TONE"
        THEN [attributes |-> [attrs EXCEPT !["PROMPT_TONE"] = v],
              messages |-> << >>]
      ELSE IF k = "SCREEN_DISPAY"
        THEN IF attrs.SCREEN_DISPLAY_NEW
               THEN one(SetField(SetField(MessageNewProtocolSet,
                                          "screen_display", v),
                                 "prompt_tone", attrs.PROMPT_TONE))
               ELSE one(MessageSwitchDisplay)
      ELSE IF k \in {"INDIRECT_WIND", "BREEZELESS"}
        THEN one(SetField(SetField(MessageNewProtocolSet, ToLowerCase(k), v),
                          "prompt_tone", attrs.PROMPT_TONE))
      ELSE IF k = "FRESH_AIR_POWER"
        THEN IF version # 0
               THEN one(fresh(<<v, attrs.FRESH_AIR_FAN_SPEED>>))
               ELSE none
      ELSE IF k = "FRESH_AIR_MODE" /\ version # 0
        THEN IF v \in FreshAirModeNames
               THEN one(fresh(fresh_air_pair(FreshAirSpeedOf(v),
                                             attrs.FRESH_AIR_FAN_SPEED)))
             ELSE IF ~Truthy(k, v)
               THEN one(fresh(<<FALSE, attrs.FRESH_AIR_FAN_SPEED>>))
             ELSE none
      ELSE IF k = "FRESH_AIR_FAN_SPEED" /\ version # 0
        THEN one(fresh(fresh_air_pair(v, attrs.FRESH_AIR_FAN_SPEED)))
      ELSE one(generic_set(self, k, v))

\* this.build_send(message): hand the message to the transport.
build_send(out, message) == Append(out, message)

\* Mutant of set_attribute: the value of an entry is stored in the attribute
\* set as soon as its command has been handed to build_send.
RECURSIVE set_attribute_optimistic(_, _)
set_attribute_optimistic(self, entries) ==
  IF entries = << >>
    THEN [attributes |-> self.attributes, sent |-> << >>, rest |-> << >>]
    ELSE LET k == Head(entries)[1]
             v == Head(entries)[2]
             r == set_attribute_entry(self, k, v)
             next == [self EXCEPT !.attributes = r.attributes]
         IN  IF r.messages # << >>
               THEN [attributes |-> (k :> v) @@ r.attributes,
                     sent |-> build_send(<< >>, r.messages[1]),
                     rest |-> Tail(entries)]
               ELSE set_attribute_optimistic(next, Tail(entries))

\* set_attribute(attributes) from one await to the next: `entries` is what is
\* left of Object.entries(attributes).  The loop runs on through the entries
\* that build no message and stops at `await this.build_send(message)` after
\* the first one that does, with `rest` left for when the call is resumed.
RECURSIVE set_attribute(_, _)
set_attribute(self, entries) ==
  IF entries = << >>
    THEN [attributes |-> self.attributes, sent |-> << >>, rest |-> << >>]
    ELSE LET r == set_attribute_entry(self, Head(entries)[1], Head(entries)[2])
             next == [self EXCEPT !.attributes = r.attributes]
         IN  IF r.messages # << >>
               THEN [attributes |-> r.attributes,
                     sent |-> build_send(<< >>, r.messages[1]),
                     rest |-> Tail(entries)]
               ELSE set_attribute(next, Tail(entries))

\* set_target_temperature(target_temperature, mode): the message sent.
set_target_temperature(self, target_temperature, mode) ==
  LET message == make_message_unique_set(self.attributes, self.used_subprotocol,
                                         self.bb_sn8_flag, self.bb_timer)
      withTemp == [message EXCEPT !["target_temperature"] = target_temperature]
  IN  IF mode # 0
        THEN [withTemp EXCEPT !["mode"] = mode, !["power"] = TRUE]
        ELSE withTemp

\* set_swing(swing_horizontal, swing_vertical): the message sent.
set_swing(self, swing_horizontal, swing_vertical) ==
  [make_message_set(self.attributes)
     EXCEPT !["swing_horizontal"] = swing_horizontal,
            !["swing_vertical"] = swing_vertical]


\* ------------------------------------------------------------------------
\* Inputs
\* ------------------------------------------------------------------------

Msg(sub, body) == [used_subprotocol |-> sub, body |-> body]

Call(op, args) == [op |-> op, args |-> args]

\* Status updates about power, mode and the mode group, of both families.
CoreMessages ==
  {Msg(FALSE, [POWER |-> b]) : b \in BOOLEAN}
  \cup {Msg(FALSE, [MODE |-> m]) : m \in 0..MaxMode}
  \cup {Msg(FALSE, [BOOST_MODE |-> b]) : b \in BOOLEAN}
  \cup {Msg(FALSE, [ECO_MODE |-> b, COMFORT_MODE |-> b]) : b \in BOOLEAN}
  \cup {Msg(FALSE, [INDOOR_TEMPERATURE |-> 21]),
        Msg(TRUE, [sn8_flag |-> TRUE, timer |-> TRUE]),
        Msg(TRUE, [POWER |-> TRUE, sn8_flag |-> FALSE])}

\* Object.entries of the one-attribute set requests of the core attributes.
CoreEntries ==
  {<<k, b>> : k \in {"POWER", "INDIRECT_WIND", "PROMPT_TONE"} \cup ModeGroup,
              b \in BOOLEAN}
  \cup {<<"MODE", m>> : m \in 0..MaxMode}
  \cup {<<"TARGET_TEMPERATURE", t>> : t \in TargetTemperatures}
  \cup {<<"AUX_HEATING", TRUE>>, <<"FAN_SPEED", 60>>, <<"BREEZELESS", TRUE>>,
        <<"SCREEN_DISPLAY", TRUE>>, <<"SCREEN_DISPAY", TRUE>>, <<"FULL_DUST", TRUE>>,
        <<"INDOOR_TEMPERATURE", 21>>, <<"REALTIME_POWER", 5>>}

\* Set requests with PROMPT_TONE and one more attribute, in both orders.
ToneEntries ==
  {<<"POWER", TRUE>>, <<"ECO_MODE", TRUE>>, <<"INDIRECT_WIND", TRUE>>,
   <<"INDOOR_TEMPERATURE", 21>>}

ToneRequests(others) ==
  {<< <<"PROMPT_TONE", t>>, e >> : t \in BOOLEAN, e \in others}
  \cup {<< e, <<"PROMPT_TONE", t>> >> : t \in BOOLEAN, e \in others}

\* Set requests of every sensor-only name, alone and next to POWER in both
\* orders.
SensorEntries ==
  {<<k, 21>> : k \in {"INDOOR_TEMPERATURE", "OUTDOOR_TEMPERATURE",
                      "INDOOR_HUMIDITY", "TOTAL_ENERGY_CONSUMPTION",
                      "CURRENT_ENERGY_CONSUMPTION", "REALTIME_POWER"}}
  \cup {<<"FULL_DUST", TRUE>>}

SensorRequests ==
  {<<e>> : e \in SensorEntries}
  \cup {<< e, <<"POWER", TRUE>> >> : e \in SensorEntries}
  \cup {<< <<"POWER", TRUE>>, e >> : e \in SensorEntries}
  \cup {<< <<"INDOOR_TEMPERATURE", 21>>, <<"REALTIME_POWER", 5>> >>}

CoreRequests == {<<e>> : e \in CoreEntries}

\* Status updates that may arrive between the entries of a set request.
InterleavedMessages ==
  {Msg(FALSE, [POWER |-> TRUE]), Msg(TRUE, [POWER |-> TRUE])}

\* Set requests of several entries, and those of PROMPT_TONE or POWER alone.
InterleavedRequests ==
  ToneRequests(ToneEntries) \cup SensorRequests
  \cup {<< <<"POWER", TRUE>>, <<"ECO_MODE", TRUE>> >>}
  \cup {<< <<"PROMPT_TONE", t>> >> : t \in BOOLEAN}
  \cup {<< <<"POWER", TRUE>> >>}

\* Status updates about power, wind, swing and the display.
DisplayMessages ==
  {Msg(FALSE, [POWER |-> b]) : b \in BOOLEAN}
  \cup {Msg(FALSE, [INDIRECT_WIND |-> TRUE]),
        Msg(FALSE, [SCREEN_DISPLAY |-> TRUE]),
        Msg(FALSE, [SCREEN_DISPLAY_NEW |-> TRUE]),
        Msg(FALSE, [SWING_VERTICAL |-> TRUE]),
        Msg(FALSE, [SWING_VERTICAL |-> TRUE, INDIRECT_WIND |-> TRUE]),
        Msg(FALSE, [POWER |-> TRUE, INDIRECT_WIND |-> TRUE,
                    SCREEN_DISPLAY |-> TRUE]),
        Msg(FALSE, [POWER |-> FALSE, INDIRECT_WIND |-> FALSE,
                    SCREEN_DISPLAY |-> FALSE])}

DisplayEntries ==
  {<<k, b>> : k \in {"POWER", "INDIRECT_WIND", "BREEZELESS", "SCREEN_DISPAY",
                     "SCREEN_DISPLAY", "PROMPT_TONE"},
              b \in BOOLEAN}

DisplayRequests ==
  {<<e>> : e \in DisplayEntries}
  \cup ToneRequests({<<"SCREEN_DISPAY", TRUE>>, <<"BREEZELESS", TRUE>>})

\* Status updates about the fresh-air feature.
FreshAirMessages ==
  {Msg(FALSE, [FRESH_AIR_POWER |-> b, FRESH_AIR_FAN_SPEED |-> s]) :
     b \in BOOLEAN, s \in FreshAirSpeeds}
  \cup {Msg(FALSE, [FRESH_AIR_POWER |-> FALSE]),
        Msg(FALSE, [FRESH_AIR_1 |-> TRUE]),
        Msg(FALSE, [FRESH_AIR_2 |-> TRUE]),
        Msg(FALSE, [FRESH_AIR_1 |-> FALSE, FRESH_AIR_2 |-> FALSE]),
        Msg(TRUE, [sn8_flag |-> TRUE])}

\* "" is a falsy FRESH_AIR_MODE, "Turbo" a truthy one that names no tier.
FreshAirEntries ==
  {<<"FRESH_AIR_POWER", b>> : b \in BOOLEAN}
  \cup {<<"FRESH_AIR_MODE", n>> : n \in FreshAirModeNames \cup {"", "Turbo"}}
  \cup {<<"FRESH_AIR_FAN_SPEED", s>> : s \in FreshAirSpeeds}

FreshAirRequests == {<<e>> : e \in FreshAirEntries}

\* ------------------------------------------------------------------------
\* MideaPlatform.addDevice
\*
\* addDevice is an async function: a call (a flow) runs without interruption
\* from one await to the next, and the flows interleave at their awaits.  The
\* position of a flow is the await it is suspended at:
\*   "idle"            not called yet
\*   "acquire"         await this.loginSemaphore.acquire(...)
\*   "login"           await this.cloud.login()
\*   "getToken"        await this.cloud.getToken(device_info.id, endianess)
\*   "connect"         await device.connect(false), new accessory
\*   "cached_connect"  await device.connect(false), accessory from the cache
\*   "done"            returned
\*   "failed"          rejected with an error
\* ------------------------------------------------------------------------

FlowIds == 1..MaxFlows

\* device_info.id of the appliances on the network; the uuid generated from
\* an id stands for the id.
DeviceIds == {"ac1", "ac2"}

\* A Buffer is the sequence of its bytes, a string the sequence of its
\* characters.
HexDigits ==
  <<"0", "1", "2", "3", "4", "5", "6", "7",
    "8", "9", "a", "b", "c", "d", "e", "f">>

\* buffer.toString('hex'): two lower-case digits for every byte.
RECURSIVE ToHex(_)
ToHex(buffer) ==
  IF buffer = << >>
    THEN << >>
    ELSE << HexDigits[(Head(buffer) \div 16) + 1],
            HexDigits[(Head(buffer) % 16) + 1] >> \o ToHex(Tail(buffer))

\* The value of a hexadecimal digit.
HexValue(c) == (CHOOSE n \in 1..16 : HexDigits[n] = c) - 1

\* Buffer.from(string, 'hex'): one byte for every two digits.
RECURSIVE FromHex(_)
FromHex(string) ==
  IF Len(string) < 2
    THEN << >>
    ELSE << HexValue(string[1]) * 16 + HexValue(string[2]) >>
         \o FromHex(SubSeq(string, 3, Len(string)))

\* What cloud.getToken(device_info.id, endianess) returns when it returns a
\* token and a key: two byte strings that differ with the byte order.
getToken(endianess) ==
  IF endianess = "little"
    THEN [token |-> <<1, 171>>, key |-> <<16, 9>>]
    ELSE [token |-> <<171, 1>>, key |-> <<9, 16>>]

\* The credentials of a device and the context of an accessory before
\* anything is stored in them.
NoCredentials == [token |-> << >>, key |-> << >>]

\* accessory.context.token and accessory.context.key for the credentials.
Context(credentials) ==
  [token |-> ToHex(credentials.token), key |-> ToHex(credentials.key)]

\* The context of an accessory of the cache, written when it was registered.
CachedContext == Context(getToken("big"))

\* device.setCredentials(Buffer.from(context.token, 'hex'),
\*                       Buffer.from(context.key, 'hex'))
CachedCredentials(context) ==
  [token |-> FromHex(context.token), key |-> FromHex(context.key)]

\* A flow before its call.  `credentials` is what device.setCredentials got
\* last and `context` the token and key in the context of the accessory.
\* `requests` and `connects` are the getToken and
\* connect calls it has made so far with their outcomes, `login` the outcome
\* of its cloud.login() and `logged_in_at_call` the value of cloud.loggedIn
\* when it called it, `handler` and `registered` whether it has called
\* AccessoryFactory.createAccessory and api.registerPlatformAccessories.
NewFlow ==
  [pc |-> "idle", device |-> "", supported |-> FALSE, i |-> 0,
   connected |-> FALSE, requests |-> << >>, connects |-> << >>,
   login |-> "none", logged_in_at_call |-> FALSE,
   handler |-> FALSE, registered |-> FALSE,
   credentials |-> NoCredentials, context |-> NoCredentials]

\* const endianess = i === 0 ? 'little' : 'big'
Endianess(i) == IF i = 0 THEN "little" ELSE "big"

\* Mutant of while_condition: a third pass is allowed.
while_condition_three_passes(i, connected) == i <= 2 /\ ~connected

\* while (i <= 1 && !connected)
while_condition(i, connected) == i <= 1 /\ ~connected

\* Mutant of needs_login: the flow logs in whatever cloud.loggedIn says.
needs_login_always(logged_in) == TRUE

\* if (!this.cloud.loggedIn)
needs_login(logged_in) == ~logged_in

\* this.loginSemaphore.acquire(): the caller joins the queue of the
\* semaphore, whose head holds it.
acquire(semaphore, f) == Append(semaphore, f)

\* The promise of acquire() resolves for the caller that holds the semaphore.
acquired(semaphore, f) == semaphore # << >> /\ Head(semaphore) = f

\* releaseSemaphore(): the caller leaves and the next in the queue holds it.
releaseSemaphore(semaphore, f) ==
  SelectSeq(semaphore, LAMBDA g : g # f)

\* The while loop of addDevice from its test onwards, up to the next await
\* or the end of the function.
while_loop(flow) ==
  IF while_condition(flow.i, flow.connected)
    THEN [flow EXCEPT
            !.pc = "getToken",
            !.requests = Append(@, [endianess |-> Endianess(flow.i),
                                    result |-> "pending"])]
    ELSE IF flow.connected
      THEN [flow EXCEPT !.pc = "done", !.handler = TRUE, !.registered = TRUE]
      ELSE [flow EXCEPT !.pc = "done"]

\* addDevice after the login section: the accessory and the device are
\* created and the loop is entered.
after_login(flow) ==
  IF flow.supported
    THEN while_loop([flow EXCEPT !.i = 0, !.connected = FALSE])
    ELSE [flow EXCEPT !.pc = "done"]

\* The last element of a sequence of calls, with its outcome filled in.
Returned(calls, result) ==
  [calls EXCEPT ![Len(calls)] = [@ EXCEPT !.result = result]]

\* configureAccessory(accessory): homebridge hands over an accessory of its
\* cache, which it does before discovery starts.
ConfigureAccessory(d) ==
  /\ \A f \in FlowIds : flows[f].pc = "idle"
  /\ d \notin accessories
  /\ accessories' = accessories \cup {d}
  /\ UNCHANGED <<loggedIn, loginSemaphore, flows>>
  /\ ~exited
  /\ UNCHANGED <<exited, device_vars>>

\* addDevice(device_info, configDev) up to its first await, called by the
\* discovery for the appliance d; `supported` tells whether
\* DeviceFactory.createDevice will return a device for it.  The flows are
\* numbered in the order of their calls.
AddDevice(f, d, supported) ==
  LET flow == [flows[f] EXCEPT !.device = d, !.supported = supported]
  IN  /\ flows[f].pc = "idle"
      /\ \A g \in 1..(f - 1) : flows[g].pc # "idle"
      /\ IF d \in accessories
           THEN /\ flows' =
                     [flows EXCEPT ![f] =
                        IF supported
                          THEN [flow EXCEPT
                                  !.pc = "cached_connect",
                                  !.context = CachedContext,
                                  !.credentials = CachedCredentials(CachedContext),
                                  !.connects = Append(@, [endianess |-> "cached",
                                                          result |-> "pending"])]
                          ELSE [flow EXCEPT !.pc = "done"]]
                /\ UNCHANGED loginSemaphore
           ELSE /\ flows' = [flows EXCEPT ![f] = [flow EXCEPT !.pc = "acquire"]]
                /\ loginSemaphore' = acquire(loginSemaphore, f)
      /\ UNCHANGED <<accessories, loggedIn>>
      /\ ~exited
      /\ UNCHANGED <<exited, device_vars>>

\* Mutant of Acquired: the semaphore is released before cloud.login() is
\* awaited instead of after it.
Acquired_releases_early(f) ==
  /\ flows[f].pc = "acquire"
  /\ acquired(loginSemaphore, f)
  /\ IF needs_login(loggedIn)
       THEN flows' = [flows EXCEPT ![f] =
                        [@ EXCEPT !.pc = "login",
                                  !.login = "pending",
                                  !.logged_in_at_call = loggedIn]]
       ELSE flows' = [flows EXCEPT ![f] = after_login(@)]
  /\ loginSemaphore' = releaseSemaphore(loginSemaphore, f)
  /\ UNCHANGED <<accessories, loggedIn>>
  /\ ~exited
  /\ UNCHANGED <<exited, device_vars>>

\* The flow f resumes with the semaphore: it tests cloud.loggedIn and either
\* calls cloud.login() or releases the semaphore and goes on to the loop.
Acquired(f) ==
  /\ flows[f].pc = "acquire"
  /\ acquired(loginSemaphore, f)
  /\ IF needs_login(loggedIn)
       THEN /\ flows' = [flows EXCEPT ![f] =
                           [@ EXCEPT !.pc = "login",
                                     !.login = "pending",
                                     !.logged_in_at_call = loggedIn]]
            /\ UNCHANGED loginSemaphore
       ELSE /\ flows' = [flows EXCEPT ![f] = after_login(@)]
            /\ loginSemaphore' = releaseSemaphore(loginSemaphore, f)
  /\ UNCHANGED <<accessories, loggedIn>>
  /\ ~exited
  /\ UNCHANGED <<exited, device_vars>>

\* Mutant of LoginReturn: the semaphore is released after a login that
\* returned only, not in a finally block.
LoginReturn_without_finally(f, ok) ==
  /\ flows[f].pc = "login"
  /\ IF ok
       THEN /\ loggedIn' = TRUE
            /\ loginSemaphore' = releaseSemaphore(loginSemaphore, f)
            /\ flows' = [flows EXCEPT ![f] =
                           after_login([@ EXCEPT !.login = "ok"])]
       ELSE /\ loggedIn' = loggedIn
            /\ loginSemaphore' = loginSemaphore
            /\ flows' = [flows EXCEPT ![f] =
                           [@ EXCEPT !.pc = "failed", !.login = "failed"]]
  /\ UNCHANGED accessories
  /\ ~exited
  /\ UNCHANGED <<exited, device_vars>>

\* cloud.login() returns (ok) or throws: the semaphore is released either
\* way; after a throw addDevice rejects with a new error.
LoginReturn(f, ok) ==
  /\ flows[f].pc = "login"
  /\ loginSemaphore' = releaseSemaphore(loginSemaphore, f)
  /\ IF ok
       THEN /\ loggedIn' = TRUE
            /\ flows' = [flows EXCEPT ![f] =
                           after_login([@ EXCEPT !.login = "ok"])]
       ELSE /\ loggedIn' = loggedIn
            /\ flows' = [flows EXCEPT ![f] =
                           [@ EXCEPT !.pc = "failed", !.login = "failed"]]
  /\ UNCHANGED accessories
  /\ ~exited
  /\ UNCHANGED <<exited, device_vars>>

\* cloud.getToken returns a token and key ("pair"), returns without them
\* ("empty") or throws ("throw").
GetTokenReturn(f, result) ==
  LET flow == [flows[f] EXCEPT !.requests = Returned(@, result)]
  IN  /\ flows[f].pc = "getToken"
      /\ flows' =
           [flows EXCEPT ![f] =
              IF result = "pair"
                THEN [flow EXCEPT
                        !.pc = "connect",
                        !.credentials = getToken(Endianess(flow.i)),
                        !.context = Context(getToken(Endianess(flow.i))),
                        !.connects = Append(@, [endianess |-> Endianess(flow.i),
                                                result |-> "pending"])]
              ELSE IF result = "empty"
                THEN while_loop([flow EXCEPT !.credentials = NoCredentials,
                                             !.i = @ + 1])
                ELSE while_loop([flow EXCEPT !.i = @ + 1])]
      /\ UNCHANGED <<accessories, loggedIn, loginSemaphore>>
      /\ ~exited
      /\ UNCHANGED <<exited, device_vars>>

\* device.connect(false) of a new accessory returns true or false, or throws,
\* which nothing in addDevice catches.
ConnectReturn(f, result) ==
  LET flow == [flows[f] EXCEPT !.connects = Returned(@, result)]
  IN  /\ flows[f].pc = "connect"
      /\ flows' =
           [flows EXCEPT ![f] =
              IF result = "throw"
                THEN [flow EXCEPT !.pc = "failed"]
                ELSE while_loop([flow EXCEPT !.connected = (result = "true"),
                                             !.i = @ + 1])]
      /\ UNCHANGED <<accessories, loggedIn, loginSemaphore>>
      /\ ~exited
      /\ UNCHANGED <<exited, device_vars>>

\* device.connect(false) of a cached accessory returns, and the accessory
\* handler is created whatever it returned, or throws, which is logged.
CachedConnectReturn(f, result) ==
  LET flow == [flows[f] EXCEPT !.connects = Returned(@, result)]
  IN  /\ flows[f].pc = "cached_connect"
      /\ flows' =
           [flows EXCEPT ![f] =
              IF result = "throw"
                THEN [flow EXCEPT !.pc = "done"]
                ELSE [flow EXCEPT !.pc = "done",
                                  !.connected = (result = "true"),
                                  !.handler = TRUE]]
      /\ UNCHANGED <<accessories, loggedIn, loginSemaphore>>
      /\ ~exited
      /\ UNCHANGED <<exited, device_vars>>

\* addDevice has rejected and its promise, which the 'device' handler of the
\* constructor dropped, is an unhandled rejection: whether the process goes
\* on is up to the host.  A host that ends it does so once the promises
\* already settled have been followed up, so after the flow that the release
\* of the semaphore has resumed; every flow then stops at the await it is
\* suspended at.
UnhandledRejection ==
  /\ ~exited
  /\ \E f \in FlowIds : flows[f].pc = "failed"
  /\ \A f \in FlowIds :
       ~(flows[f].pc = "acquire" /\ acquired(loginSemaphore, f))
  /\ exited' = TRUE
  /\ UNCHANGED <<accessories, loggedIn, loginSemaphore, flows>>
  /\ UNCHANGED device_vars

TokenResults == {"pair", "empty", "throw"}

ConnectResults == {"true", "false", "throw"}

\* ------------------------------------------------------------------------
\* The device as a state machine
\* ------------------------------------------------------------------------

Self ==
  [attributes |-> attributes,
   fresh_air_version |-> fresh_air_version,
   used_subprotocol |-> used_subprotocol,
   bb_sn8_flag |-> bb_sn8_flag,
   bb_timer |-> bb_timer]

\* The state after the constructor.
Init ==
  /\ attributes = DefaultAttributes
  /\ fresh_air_version = 0
  /\ used_subprotocol = FALSE
  /\ bb_sn8_flag = FALSE
  /\ bb_timer = FALSE
  /\ sent = << >>
  /\ new_status = << >>
  /\ call = Call("constructor", << >>)
  /\ suspended = << >>
  /\ accessories = {}
  /\ loggedIn = FALSE
  /\ loginSemaphore = << >>
  /\ flows = [f \in FlowIds |-> NewFlow]
  /\ exited = FALSE

BuildQuery ==
  /\ sent' = build_query(used_subprotocol)
  /\ new_status' = << >>
  /\ call' = Call("build_query", << >>)
  /\ UNCHANGED <<attributes, fresh_air_version, used_subprotocol,
                 bb_sn8_flag, bb_timer>>
  /\ UNCHANGED <<suspended, platform_vars>>

ProcessMessage(message) ==
  LET r == process_message(Self, message)
  IN  /\ attributes' = r.attributes
      /\ fresh_air_version' = r.fresh_air_version
      /\ used_subprotocol' = r.used_subprotocol
      /\ bb_sn8_flag' = r.bb_sn8_flag
      /\ bb_timer' = r.bb_timer
      /\ new_status' = r.new_status
      /\ sent' = << >>
      /\ call' = Call("process_message", <<message>>)
      /\ UNCHANGED <<suspended, platform_vars>>

\* A call of set_attribute up to its first await: the entries in input
\* order up to the first one that sends a message.  With entries left, the
\* call stays suspended until the promise of build_send settles; with none
\* left, resuming it does nothing more.
SetAttribute(entries) ==
  LET r == set_attribute(Self, entries)
  IN  /\ r.rest # << >> => Len(suspended) < MaxSuspended
      /\ attributes' = r.attributes
      /\ sent' = r.sent
      /\ new_status' = << >>
      /\ call' = Call("set_attribute", entries)
      /\ suspended' = IF r.rest # << >>
                        THEN Append(suspended, [args |-> entries, rest |-> r.rest])
                        ELSE suspended
      /\ UNCHANGED <<fresh_air_version, used_subprotocol, bb_sn8_flag, bb_timer>>
      /\ UNCHANGED platform_vars

\* A sequence without its n-th element.
Remove(seq, n) == SubSeq(seq, 1, n - 1) \o SubSeq(seq, n + 1, Len(seq))

\* The promise of build_send has settled and the suspended call j of
\* set_attribute goes on with the entries it has left, up to its next await.
ResumeSetAttribute(j) ==
  LET c == suspended[j]
      r == set_attribute(Self, c.rest)
  IN  /\ attributes' = r.attributes
      /\ sent' = r.sent
      /\ new_status' = << >>
      /\ call' = Call("set_attribute_resumed", c.args)
      /\ suspended' = IF r.rest # << >>
                        THEN [suspended EXCEPT ![j] = [c EXCEPT !.rest = r.rest]]
                        ELSE Remove(suspended, j)
      /\ UNCHANGED <<fresh_air_version, used_subprotocol, bb_sn8_flag, bb_timer>>
      /\ UNCHANGED platform_vars

SetTargetTemperature(target_temperature, mode) ==
  /\ sent' = build_send(<< >>, set_target_temperature(Self, target_temperature, mode))
  /\ new_status' = << >>
  /\ call' = Call("set_target_temperature", <<target_temperature, mode>>)
  /\ UNCHANGED <<attributes, fresh_air_version, used_subprotocol,
                 bb_sn8_flag, bb_timer>>
  /\ UNCHANGED <<suspended, platform_vars>>

SetSwing(swing_horizontal, swing_vertical) ==
  /\ sent' = build_send(<< >>, set_swing(Self, swing_horizontal, swing_vertical))
  /\ new_status' = << >>
  /\ call' = Call("set_swing", <<swing_horizontal, swing_vertical>>)
  /\ UNCHANGED <<attributes, fresh_air_version, used_subprotocol,
                 bb_sn8_flag, bb_timer>>
  /\ UNCHANGED <<suspended, platform_vars>>

Next ==
  \/ BuildQuery
  \/ \E message \in CoreMessages : ProcessMessage(message)
  \/ \E entries \in CoreRequests : SetAttribute(entries)
  \/ \E t \in TargetTemperatures, m \in 0..MaxMode : SetTargetTemperature(t, m)
  \/ \E h \in BOOLEAN, v \in BOOLEAN : SetSwing(h, v)

Spec == Init /\ [][Next]_vars


NextDisplay ==
  \/ \E message \in DisplayMessages : ProcessMessage(message)
  \/ \E entries \in DisplayRequests : SetAttribute(entries)
  \/ \E j \in 1..Len(suspended) : ResumeSetAttribute(j)
  \/ \E t \in TargetTemperatures, m \in 0..MaxMode : SetTargetTemperature(t, m)
  \/ \E h \in BOOLEAN, v \in BOOLEAN : SetSwing(h, v)

SpecDisplay == Init /\ [][NextDisplay]_vars


NextFreshAir ==
  \/ \E message \in FreshAirMessages : ProcessMessage(message)
  \/ \E entries \in FreshAirRequests : SetAttribute(entries)

SpecFreshAir == Init /\ [][NextFreshAir]_vars


\* The calls of the device with set requests of several entries: the other
\* calls run between the awaits of a suspended set_attribute.
NextInterleaved ==
  \/ BuildQuery
  \/ \E message \in InterleavedMessages : ProcessMessage(message)
  \/ \E entries \in InterleavedRequests : SetAttribute(entries)
  \/ \E j \in 1..Len(suspended) : ResumeSetAttribute(j)
  \/ \E t \in TargetTemperatures : SetTargetTemperature(t, 0)
  \/ \E h \in BOOLEAN, v \in BOOLEAN : SetSwing(h, v)

SpecInterleaved == Init /\ [][NextInterleaved]_vars


\* The platform: the cache is restored, the discovery calls addDevice, and
\* the calls of the flows return in any order.
NextPlatform ==
  \/ \E d \in DeviceIds : ConfigureAccessory(d)
  \/ \E f \in FlowIds, d \in DeviceIds, supported \in BOOLEAN :
       AddDevice(f, d, supported)
  \/ \E f \in FlowIds : Acquired(f)
  \/ \E f \in FlowIds, ok \in BOOLEAN : LoginReturn(f, ok)
  \/ \E f \in FlowIds, result \in TokenResults : GetTokenReturn(f, result)
  \/ \E f \in FlowIds, result \in ConnectResults : ConnectReturn(f, result)
  \/ \E f \in FlowIds, result \in ConnectResults : CachedConnectReturn(f, result)
  \/ UnhandledRejection

SpecPlatform == Init /\ [][NextPlatform]_vars

\* The platform when the event loop resumes every flow whose promise of
\* acquire() has resolved and delivers the outcome of every cloud.login()
\* call for as long as the process lives.
SpecPlatformFair ==
  /\ SpecPlatform
  /\ \A f \in FlowIds : WF_vars(Acquired(f))
  /\ \A f \in FlowIds : WF_vars(\E ok \in BOOLEAN : LoginReturn(f, ok))


\* ------------------------------------------------------------------------
\* Properties
\* ------------------------------------------------------------------------

\* The last call was process_message(message) / a one-attribute set_attribute.
Processed == call.op = "process_message"

LastBody == call.args[1].body

SetOne == call.op = "set_attribute" /\ Len(call.args) = 1

\* The steps of a set_attribute call: its start and its resumptions.
SetOps == {"set_attribute", "set_attribute_resumed"}

SetKey == call.args[1][1]

SetValue == call.args[1][2]

\* The attributes a status update corrects after the merge.
CorrectedNames == {"INDIRECT_WIND", "SCREEN_DISPLAY", "FRESH_AIR_MODE"}

\* C1: after process_message, every attribute whose field the message carries
\* (with any value, false and 0 included) holds the message's value and is
\* recorded with it in the change-set.
C1_CarriedFieldsStored ==
  Processed =>
    \A name \in (DOMAIN attributes \cap DOMAIN LastBody) \ CorrectedNames :
      /\ attributes[name] = LastBody[name]
      /\ name \in DOMAIN new_status
      /\ new_status[name] = LastBody[name]

\* C2: a status update that carries POWER=false returns a change-set with
\* INDIRECT_WIND=false and SCREEN_DISPLAY=false, whatever the state before.
C2_PowerOffForcesWindAndDisplay ==
  (Processed /\ "POWER" \in DOMAIN LastBody /\ LastBody["POWER"] = FALSE) =>
    /\ "INDIRECT_WIND" \in DOMAIN new_status
    /\ new_status["INDIRECT_WIND"] = FALSE
    /\ "SCREEN_DISPLAY" \in DOMAIN new_status
    /\ new_status["SCREEN_DISPLAY"] = FALSE

StatusSetTypes == {"MessageGeneralSet", "MessageSubProtocolSet"}

\* The status-set type of the family the device has selected.
SelectedSetType ==
  IF used_subprotocol THEN "MessageSubProtocolSet" ELSE "MessageGeneralSet"

\* C3: set_attribute({MODE: m}) with m non-zero emits a status-set command
\* whose power field is true and whose mode field is m.
C3_ModeForcesPower ==
  (SetOne /\ SetKey = "MODE" /\ SetValue # 0) =>
    /\ Len(sent) = 1
    /\ sent[1].type \in StatusSetTypes
    /\ sent[1].power = TRUE
    /\ sent[1].mode = SetValue

GenericExamples ==
  {"POWER", "MODE", "TARGET_TEMPERATURE", "FAN_SPEED", "AUX_HEATING"}

\* C4: set_attribute({k: v}) for a generically routed attribute k emits
\* exactly one status-set command of the selected family whose field for k is
\* v and whose other fields are those of the current attribute set.
C4_GenericSetCarriesValue ==
  (SetOne /\ SetKey \in GenericExamples) =>
    /\ Len(sent) = 1
    /\ sent[1].type = SelectedSetType
    /\ sent[1][ToLowerCase(SetKey)] = SetValue
    /\ \A f \in DOMAIN sent[1] \ {ToLowerCase(SetKey)} :
         sent[1][f] = make_message_unique_set(attributes, used_subprotocol,
                                              bb_sn8_flag, bb_timer)[f]

ModeFields ==
  {"boost_mode", "sleep_mode", "eco_mode", "frost_protect", "comfort_mode"}

\* The mode-group fields of a message that are true.
TrueModeFields(message) ==
  {f \in ModeFields \cap DOMAIN message : message[f] = TRUE}

\* C5: set_attribute({k: true}) for k among BOOST_MODE, SLEEP_MODE, ECO_MODE
\* emits one status-set command of the selected family in which k is the only
\* true field of the mode group (FROST_PROTECT and COMFORT_MODE being present
\* and false in the general family); and a command emitted for any mode-group
\* attribute never has two mode-group fields true.
C5_ModeGroupExclusive ==
  (SetOne /\ SetKey \in ModeGroup) =>
    /\ Len(sent) = 1
    /\ sent[1].type = SelectedSetType
    /\ Cardinality(TrueModeFields(sent[1])) <= 1
    /\ (SetKey \in {"BOOST_MODE", "SLEEP_MODE", "ECO_MODE"} /\ SetValue = TRUE) =>
         /\ TrueModeFields(sent[1]) = {ToLowerCase(SetKey)}
         /\ {"boost_mode", "sleep_mode", "eco_mode"} \subseteq DOMAIN sent[1]
         /\ sent[1].type = "MessageGeneralSet" =>
              {"frost_protect", "comfort_mode"} \subseteq DOMAIN sent[1]

\* C5 witness: BOOST_MODE was requested while ECO_MODE and COMFORT_MODE were
\* on, and the general command sent has them off.
C5_Witness ==
  /\ SetOne /\ SetKey = "BOOST_MODE" /\ SetValue = TRUE
  /\ attributes.ECO_MODE /\ attributes.COMFORT_MODE
  /\ Len(sent) = 1
  /\ sent[1].type = "MessageGeneralSet"
  /\ sent[1].boost_mode /\ ~sent[1].eco_mode /\ ~sent[1].comfort_mode


\* The tier the fresh-air speed s belongs to: the name of the largest
\* threshold among 0, 20, 40, 60, 80, 100 that is <= s.
TierOfSpeed(s) ==
  IF s >= 100 THEN "Full"
  ELSE IF s >= 80 THEN "High"
  ELSE IF s >= 60 THEN "Medium"
  ELSE IF s >= 40 THEN "Low"
  ELSE IF s >= 20 THEN "Silent"
  ELSE "Off"

\* C6: after a status update that carries FRESH_AIR_POWER=true and
\* FRESH_AIR_FAN_SPEED=s, FRESH_AIR_MODE is the tier of s, in the attribute
\* set and in the change-set.
C6_FreshAirModeIsTierOfSpeed ==
  (/\ Processed
   /\ {"FRESH_AIR_POWER", "FRESH_AIR_FAN_SPEED"} \subseteq DOMAIN LastBody
   /\ LastBody["FRESH_AIR_POWER"] = TRUE) =>
    /\ "FRESH_AIR_MODE" \in DOMAIN attributes
    /\ attributes["FRESH_AIR_MODE"] = TierOfSpeed(LastBody["FRESH_AIR_FAN_SPEED"])
    /\ "FRESH_AIR_MODE" \in DOMAIN new_status
    /\ new_status["FRESH_AIR_MODE"] = TierOfSpeed(LastBody["FRESH_AIR_FAN_SPEED"])

\* C7: after a status update that reports FRESH_AIR_POWER=false,
\* FRESH_AIR_MODE is "Off" in the attribute set and in the change-set.
C7_FreshAirOffForcesModeOff ==
  (/\ Processed
   /\ "FRESH_AIR_POWER" \in DOMAIN LastBody
   /\ LastBody["FRESH_AIR_POWER"] = FALSE) =>
    /\ "FRESH_AIR_MODE" \in DOMAIN attributes
    /\ attributes["FRESH_AIR_MODE"] = "Off"
    /\ "FRESH_AIR_MODE" \in DOMAIN new_status
    /\ new_status["FRESH_AIR_MODE"] = "Off"

FreshAirNames == {"FRESH_AIR_POWER", "FRESH_AIR_MODE", "FRESH_AIR_FAN_SPEED"}

\* C8: while the fresh-air version is unknown, set_attribute with a
\* fresh-air attribute emits no command of any kind.
C8_FreshAirUnknownVersionNoOp ==
  (SetOne /\ SetKey \in FreshAirNames /\ fresh_air_version = 0) => sent = << >>

\* The speed each named tier stands for.
TierSpeed ==
  [Off |-> 0, Silent |-> 20, Low |-> 40, Medium |-> 60, High |-> 80,
   Full |-> 100]

\* The message is a new-protocol command whose only payload is the fresh-air
\* pair under the version's tag.
IsFreshAirCommand(message, version, pair) ==
  /\ message.type = "MessageNewProtocolSet"
  /\ DOMAIN message = {"type", IF version = 1 THEN "1" ELSE "2"}
  /\ message[IF version = 1 THEN "1" ELSE "2"] = pair

\* C9: with the fresh-air version known, set_attribute({FRESH_AIR_MODE: name})
\* emits exactly one new-protocol command tagged with the version: (true, s)
\* for a tier of speed s > 0, (false, current FRESH_AIR_FAN_SPEED) for "Off"
\* or a falsy value; and no command for a truthy value that names no tier.
C9_FreshAirModeCommand ==
  (SetOne /\ SetKey = "FRESH_AIR_MODE" /\ fresh_air_version \in {1, 2}) =>
    IF SetValue \in DOMAIN TierSpeed /\ SetValue # "Off"
      THEN /\ Len(sent) = 1
           /\ IsFreshAirCommand(sent[1], fresh_air_version,
                                <<TRUE, TierSpeed[SetValue]>>)
    ELSE IF SetValue \in {"Off", ""}
      THEN /\ Len(sent) = 1
           /\ IsFreshAirCommand(sent[1], fresh_air_version,
                                <<FALSE, attributes.FRESH_AIR_FAN_SPEED>>)
    ELSE sent = << >>

\* C9 witness: "Full" was requested with version 1 and the command tagged 1
\* carries (true, 100).
C9_Witness ==
  /\ SetOne /\ SetKey = "FRESH_AIR_MODE" /\ SetValue = "Full"
  /\ fresh_air_version = 1
  /\ Len(sent) = 1
  /\ "1" \in DOMAIN sent[1]
  /\ sent[1]["1"] = <<TRUE, 100>>

GeneralFamily ==
  {"MessageQuery", "MessageGeneralSet", "MessageNewProtocolQuery",
   "MessageNewProtocolSet", "MessagePowerQuery"}

SubProtocolFamily == {"MessageSubProtocolQuery", "MessageSubProtocolSet"}

SentTypes == {sent[i].type : i \in 1..Len(sent)}

\* C10 as stated: once sub-protocol use has been seen, no message of the
\* general family is issued by any operation.
C10_NoGeneralFamilyOnceLocked ==
  used_subprotocol => SentTypes \cap GeneralFamily = {}

\* What each operation may issue while the device is sub-protocol-locked.
LockedIssue ==
  /\ call.op \in {"build_query", "set_target_temperature"} =>
       SentTypes \subseteq SubProtocolFamily
  /\ call.op \in SetOps =>
       SentTypes \subseteq {"MessageSubProtocolSet", "MessageNewProtocolSet",
                            "MessageSwitchDisplay"}
  /\ call.op = "set_swing" => SentTypes = {"MessageGeneralSet"}

\* C10 amended: the lock is never cleared, and once locked build_query and
\* set_target_temperature issue only sub-protocol messages and set_attribute
\* issues no general status-set; set_swing still issues a general status-set
\* and set_attribute's new-protocol routes still issue new-protocol commands.
C10_LockStickyAndHonoured ==
  [][/\ used_subprotocol => used_subprotocol'
     /\ used_subprotocol' => LockedIssue']_vars

\* C10 witness: a locked device has sent a sub-protocol status-set for a
\* generic attribute.
C10_Witness ==
  /\ used_subprotocol
  /\ SetOne /\ SetKey = "POWER"
  /\ SentTypes = {"MessageSubProtocolSet"}

\* C11: the fresh-air version is sticky: once it is 1 or 2, no later status
\* update or command changes it.
C11_FreshAirVersionSticky ==
  [][fresh_air_version # 0 => fresh_air_version' = fresh_air_version]_vars

\* The result of merging the last processed message once more.
MergedAgain == process_message(Self, call.args[1])

\* The corrections re-asserted by a merge that leaves POWER false.
PowerOffCorrections ==
  IF attributes.POWER THEN {} ELSE {"INDIRECT_WIND", "SCREEN_DISPLAY"}

\* C14 as stated: merging the same response a second time leaves the
\* attributes as they are and returns a change-set with nothing but the
\* POWER-off corrections, since no field changes in the second merge.
C14_SecondMergeOnlyCorrections ==
  Processed =>
    /\ MergedAgain.attributes = attributes
    /\ DOMAIN MergedAgain.new_status = PowerOffCorrections

\* The set_attribute call that just made a step included PROMPT_TONE.
SetWithTone ==
  /\ call.op \in SetOps
  /\ \E i \in 1..Len(call.args) : call.args[i][1] = "PROMPT_TONE"

\* That call has entries left and is suspended.
CallSuspended ==
  \E j \in 1..Len(suspended) : suspended[j].args = call.args

\* The tone requested by that call.
RequestedTone ==
  call.args[CHOOSE i \in 1..Len(call.args) : call.args[i][1] = "PROMPT_TONE"][2]

\* C15: a set_attribute call with PROMPT_TONE = t and other attributes, in
\* any input order, sends no command for PROMPT_TONE itself, every command
\* it sends, in whichever of its steps, carries prompt tone t, and once it
\* is through its entries the stored tone is t.
C15_ToneFoldedIntoCommands ==
  SetWithTone =>
    /\ ~CallSuspended => attributes.PROMPT_TONE = RequestedTone
    /\ Len(sent) < Len(call.args)
    /\ \A i \in 1..Len(sent) :
         /\ "prompt_tone" \in DOMAIN sent[i]
         /\ sent[i].prompt_tone = RequestedTone

\* The routes a display toggle may take.
DisplayRoute ==
  IF attributes.SCREEN_DISPLAY_NEW
    THEN {SetField(SetField(MessageNewProtocolSet, "screen_display", SetValue),
                   "prompt_tone", attributes.PROMPT_TONE)}
    ELSE {MessageSwitchDisplay}

\* C16: set_attribute({SCREEN_DISPLAY: v}) sends a new-protocol command with
\* screen_display = v and the stored prompt tone when SCREEN_DISPLAY_NEW is
\* true, a switch-display command otherwise, and never a generic status-set
\* command.
C16_DisplayToggleRoute ==
  SetOne /\ SetKey = "SCREEN_DISPLAY" =>
    /\ Len(sent) = 1
    /\ sent[1] \in DisplayRoute
    /\ sent[1].type \notin StatusSetTypes

\* The sensor-only attribute names of the attribute set.
ReadOnlyNames ==
  {"INDOOR_TEMPERATURE", "OUTDOOR_TEMPERATURE", "INDOOR_HUMIDITY", "FULL_DUST",
   "TOTAL_ENERGY_CONSUMPTION", "CURRENT_ENERGY_CONSUMPTION", "REALTIME_POWER"}

IsWritable(entry) == entry[1] \notin ReadOnlyNames

\* C17: a sensor-only name in a set_attribute call is a silent no-op: in
\* each of its steps the call sends and stores exactly what it would without
\* the sensor entries and has the same other entries left, so these are still
\* processed, and sensor entries alone send nothing and leave the attributes
\* as they are.  SensorsSkipped states it for one step of set_attribute from
\* `entries` that leaves `left`.
\* would have done without the sensor entries.
SensorsSkipped(entries, left) ==
  LET kept == SelectSeq(entries, IsWritable)
      r == set_attribute(Self, kept)
  IN  /\ attributes' = r.attributes
      /\ sent' = r.sent
      /\ SelectSeq(left, IsWritable) = r.rest
      /\ kept = << >> => sent' = << >> /\ attributes' = attributes

C17_SensorSetIsNoOp ==
  [][/\ call'.op = "set_attribute" =>
          SensorsSkipped(call'.args,
                         IF Len(suspended') > Len(suspended)
                           THEN suspended'[Len(suspended')].rest
                           ELSE << >>)
     /\ call'.op = "set_attribute_resumed" =>
          \E j \in 1..Len(suspended) :
            /\ suspended[j].args = call'.args
            /\ SensorsSkipped(suspended[j].rest,
                              IF Len(suspended') = Len(suspended)
                                THEN suspended'[j].rest
                                ELSE << >>)]_vars

\* C17 witness: a call with a sensor entry before POWER has sent the one
\* command for POWER.
C17_Witness ==
  /\ call.op = "set_attribute"
  /\ call.args = << <<"INDOOR_TEMPERATURE", 21>>, <<"POWER", TRUE>> >>
  /\ Len(sent) = 1
  /\ sent[1].type \in StatusSetTypes

\* C18: in every state reached from the constructor defaults by
\* process_message, set_attribute, set_target_temperature and set_swing,
\* a stored POWER of false implies that the stored INDIRECT_WIND and
\* SCREEN_DISPLAY are false.
C18_PowerOffImpliesWindAndDisplayOff ==
  ~attributes.POWER => ~attributes.INDIRECT_WIND /\ ~attributes.SCREEN_DISPLAY

\* C18 witness: a status update carrying SCREEN_DISPLAY = true has been
\* merged while POWER is false, and the display is stored as off.
C18_Witness ==
  /\ Processed
  /\ "SCREEN_DISPLAY" \in DOMAIN LastBody
  /\ LastBody.SCREEN_DISPLAY
  /\ ~attributes.POWER
  /\ ~attributes.SCREEN_DISPLAY
  /\ "SCREEN_DISPLAY" \in DOMAIN new_status

\* The operations that build commands.
CommandOps ==
  {"set_attribute", "set_attribute_resumed", "set_target_temperature",
   "set_swing", "build_query"}

\* C19 as stated: set_attribute, set_target_temperature, set_swing and
\* build_query change a stored attribute only when a command has been sent.
C19_NoMutationWithoutCommand ==
  [][call'.op \in CommandOps /\ attributes' # attributes => sent' # << >>]_vars

\* C19 amended: of the operations that build commands, only set_attribute
\* changes the attribute set, and only by storing the PROMPT_TONE of its
\* input; every other attribute is left to process_message, whether or not
\* a command was sent.
C19_OnlyToneStoredLocally ==
  [][call'.op \in CommandOps =>
       /\ DOMAIN attributes' = DOMAIN attributes
       /\ \A name \in DOMAIN attributes :
            name # "PROMPT_TONE" => attributes'[name] = attributes[name]
       /\ attributes'.PROMPT_TONE # attributes.PROMPT_TONE =>
            /\ call'.op \in SetOps
            /\ \E i \in 1..Len(call'.args) :
                 call'.args[i] = <<"PROMPT_TONE", attributes'.PROMPT_TONE>>]_vars

\* C19 witness: set_attribute({PROMPT_TONE: true}) has stored the tone and
\* sent nothing.
C19_Witness ==
  /\ SetOne
  /\ SetKey = "PROMPT_TONE"
  /\ attributes.PROMPT_TONE
  /\ sent = << >>

\* The flows inside the login section of addDevice: resumed with the
\* semaphore and not yet through its release.
InLoginSection == {f \in FlowIds : flows[f].pc = "login"}

\* The flows waiting for the semaphore.
WaitingForSemaphore == {f \in FlowIds : flows[f].pc = "acquire"}

\* C12: whatever the interleaving of the addDevice flows of new devices, at
\* most one of them is inside the login section at a time, and it is the one
\* holding the semaphore.
C12_OneFlowInLoginSection ==
  /\ Cardinality(InLoginSection) <= 1
  /\ \A f \in InLoginSection : acquired(loginSemaphore, f)

\* C12 witness: one flow is awaiting cloud.login() while another one waits
\* for the semaphore.
C12_Witness ==
  /\ InLoginSection # {}
  /\ WaitingForSemaphore # {}
  /\ Len(loginSemaphore) = 2

\* The flows that went down the new-accessory path of addDevice.
NewDeviceFlows ==
  {f \in FlowIds : flows[f].pc # "idle" /\ flows[f].device \notin accessories}

IsPrefix(s, t) == Len(s) <= Len(t) /\ \A j \in 1..Len(s) : s[j] = t[j]

Endiannesses(calls) == [j \in 1..Len(calls) |-> calls[j].endianess]

\* The token requests of `requests` that returned a token and key.
WithPair(requests) == SelectSeq(requests, LAMBDA r : r.result = "pair")

\* C13: on first pairing a flow requests tokens little-endian first and
\* big-endian second, at most two in all; it connects only with the pairs
\* that getToken returned, in the order it got them, so at most twice; and
\* nothing follows a connect that succeeded.
C13_LittleThenBigAtMostTwice ==
  \A f \in NewDeviceFlows :
    LET requests == flows[f].requests
        connects == flows[f].connects
    IN  /\ IsPrefix(Endiannesses(requests), <<"little", "big">>)
        /\ Endiannesses(connects) = Endiannesses(WithPair(requests))
        /\ Len(requests) <= 2 /\ Len(connects) <= 2
        /\ \A j \in 1..Len(connects) :
             connects[j].result = "true" =>
               /\ j = Len(connects)
               /\ requests[Len(requests)].endianess = connects[j].endianess
               /\ flows[f].pc = "done"

\* C13 witness: the little-endian connect failed, the big-endian one
\* succeeded and the flow has finished.
C13_Witness ==
  \E f \in NewDeviceFlows :
    /\ flows[f].pc = "done"
    /\ flows[f].connects = << [endianess |-> "little", result |-> "false"],
                              [endianess |-> "big", result |-> "true"] >>
    /\ flows[f].registered

\* The flows whose cloud.login() succeeded.
LoggedInBy == {f \in FlowIds : flows[f].login = "ok"}

\* C20: cloud.login() is never called while the cloud is logged in, in
\* flight or not, and so succeeds at most once over all flows.
C20_LoginOnlyWhileLoggedOut ==
  /\ \A f \in FlowIds : flows[f].login # "none" => ~flows[f].logged_in_at_call
  /\ loggedIn => InLoginSection = {}
  /\ Cardinality(LoggedInBy) <= 1
  /\ loggedIn <=> LoggedInBy # {}

\* C20 witness: one flow has logged in and another one, a new device too,
\* went through the login section without calling cloud.login().
C20_Witness ==
  /\ LoggedInBy # {}
  /\ \E f \in NewDeviceFlows :
       /\ flows[f].login = "none"
       /\ flows[f].requests # << >>

\* The flows that have called api.registerPlatformAccessories for device d.
RegisteredBy(d) ==
  {f \in FlowIds : flows[f].registered /\ flows[f].device = d}

\* C21: however many 'device' events the discovery delivers for one device
\* id, and however the addDevice flows they start interleave, the device is
\* registered as a platform accessory at most once.
C21_RegisteredAtMostOnce ==
  \A d \in DeviceIds : Cardinality(RegisteredBy(d)) <= 1

\* The last connect of the flow reported success.
ConnectSucceeded(flow) ==
  /\ flow.connects # << >>
  /\ flow.connects[Len(flow.connects)].result = "true"

\* C22: on the cached and on the new path, a flow creates the accessory
\* handler only after a connect that returned true; and a new accessory is
\* registered only then, its context holding the hex of the token and key
\* that the successful connect used.
C22_HandlerOnlyAfterSuccessfulConnect ==
  \A f \in FlowIds :
    /\ flows[f].handler => ConnectSucceeded(flows[f])
    /\ flows[f].registered =>
         /\ ConnectSucceeded(flows[f])
         /\ flows[f].credentials =
              getToken(flows[f].connects[Len(flows[f].connects)].endianess)
         /\ flows[f].context.token = ToHex(flows[f].credentials.token)
         /\ flows[f].context.key = ToHex(flows[f].credentials.key)

\* The flows in the queue of the semaphore, its holder included.
InSemaphore == {loginSemaphore[j] : j \in 1..Len(loginSemaphore)}

\* The semaphore is held or waited for by the flows at the acquire and at
\* the login only: a flow that left the login section, by return or by
\* throw, has released it.
ReleasedOutsideLoginSection ==
  InSemaphore = {f \in FlowIds : flows[f].pc \in {"acquire", "login"}}

\* Every cloud.login() call terminates: no flow stays at its await for ever.
EveryLoginTerminates ==
  \A g \in FlowIds : []<>(flows[g].pc # "login")

====
